---- MODULE Spec2Model ----
(***************************************************************************)
(* Deferred-initialisation application state machine of the engine         *)
(* (engine/src/context.rs): EngineContext owns the event loop and the App; *)
(* App holds State::Init(Option<proxy>) until the Graphics built by        *)
(* create_graphics arrives as a user event, then State::Ready(Graphics).   *)
(***************************************************************************)
EXTENDS Naturals, Sequences, FiniteSets

\* ---------------------------------------------------------------- bounds
MaxActivations == 2      \* calls of resumed the platform makes
MaxSends == 2            \* values one construction task may push through its proxy
MaxWinEvents == 2        \* window events the platform delivers
MaxRefs == 2             \* Arc<EngineContext> handles alive at once

Sizes == {1, 2}           \* two distinct PhysicalSize values
NoGfx == 0               \* no Graphics held (State::Init)
NoSize == 0              \* event or call without a size

VARIABLES
    state,        \* variant of App.state: "Init" or "Ready"
    proxy,        \* State::Init payload: TRUE = Some(proxy), FALSE = None
    gfx,          \* State::Ready payload: the Graphics held (NoGfx in Init)
    live,         \* Graphics values that exist (constructed and not dropped)
    queue,        \* user events sent through the proxy, not yet dispatched
    exiting,      \* event_loop.exit() has been called
    phase,        \* "created", "running", "blocked", "panicked", "exited", "dropped"
    platform,     \* build target: "blocking" (native) or "cooperative" (wasm32)
    refs,         \* strong count of the Arc<EngineContext>
    event_loop,   \* EngineContext.event_loop is Some
    last_run,     \* outcome of the latest run call: "none", "panic", "started", "silent"
    run_calls,    \* parity of the calls of EngineContext::run made
    redraw_pending, \* request_redraw was called and no RedrawRequested came since
    tasks,        \* construction tasks started: [sent, done]
    windows,      \* create_window calls that returned a window
    calls,        \* calls made on Graphics values, in order: [op, h, size]
    handled,      \* window events handled, in order: [kind, size, st]
    activations,  \* resumed calls handled
    delivered,    \* user_event calls handled
    transitions   \* times App.state went from Init to Ready

vars == <<state, proxy, gfx, live, queue, exiting, phase, platform, refs,
          event_loop, last_run, run_calls, redraw_pending, tasks, windows,
          calls, handled, activations, delivered, transitions>>

appVars == <<state, proxy, gfx>>
ctxVars == <<refs, event_loop, last_run, run_calls, platform>>

\* ------------------------------------------------------------- helpers
Range(s) == {s[i] : i \in 1..Len(s)}

\* The k-th Graphics built by task i.
Handle(i, k) == (i - 1) * (MaxSends + 1) + k

Call(op, h, size) == [op |-> op, h |-> h, size |-> size]

WinEvents ==
    {[kind |-> "Resized", size |-> s] : s \in Sizes}
        \cup {[kind |-> k, size |-> NoSize] :
                k \in {"RedrawRequested", "CloseRequested", "Other"}}

\* ------------------------------------------------------------------ App
\* draw without the State::Ready match: it calls whatever the state holds.
draw_unguarded(st, g) == <<Call("draw", g, NoSize)>>

\* App::draw: the calls it makes.
draw(st, g) ==
    IF st = "Ready" THEN <<Call("draw", g, NoSize)>> ELSE <<>>

\* resized that forwards the call without the new size.
resized_no_size(st, g, size) ==
    IF st = "Ready" THEN <<Call("resize", g, NoSize)>> ELSE <<>>

\* App::resized: the calls it makes.
resized(st, g, size) ==
    IF st = "Ready" THEN <<Call("resize", g, size)>> ELSE <<>>

\* The slot read without being emptied (as_ref or clone in place of take).
proxy_peek(p) == p

\* Option::take on the proxy slot: the value left in the slot.
proxy_take(p) == FALSE

\* The guard without the inner if-let-Some: any State::Init passes.
resumed_guard_any_init(st, p) == st = "Init"

\* The guard of resumed: State::Init holding Some(proxy).
resumed_guard(st, p) == st = "Init" /\ p

\* EngineContext::new / App::new
new ==
    /\ state = "Init"
    /\ proxy = TRUE
    /\ gfx = NoGfx
    /\ live = {}
    /\ queue = <<>>
    /\ exiting = FALSE
    /\ phase = "created"
    /\ platform \in {"blocking", "cooperative"}
    /\ refs = 1
    /\ event_loop = TRUE
    /\ last_run = "none"
    /\ run_calls = 0
    /\ redraw_pending = FALSE
    /\ tasks = <<>>
    /\ windows = 0
    /\ calls = <<>>
    /\ handled = <<>>
    /\ activations = 0
    /\ delivered = 0
    /\ transitions = 0

Init == new

\* window_event that exits on close only once a renderer is held.
window_event_fx_close_when_ready(st, p, g, ev) ==
    [state |-> st, proxy |-> p, gfx |-> g,
     calls |-> CASE ev.kind = "Resized" -> resized(st, g, ev.size)
                 [] ev.kind = "RedrawRequested" -> draw(st, g)
                 [] OTHER -> <<>>,
     exit |-> ev.kind = "CloseRequested" /\ st = "Ready"]

\* window_event that falls back to State::Init(None) on a resize.
window_event_fx_reinit(st, p, g, ev) ==
    [state |-> IF ev.kind = "Resized" THEN "Init" ELSE st,
     proxy |-> IF ev.kind = "Resized" THEN FALSE ELSE p,
     gfx |-> IF ev.kind = "Resized" THEN NoGfx ELSE g,
     calls |-> CASE ev.kind = "Resized" -> resized(st, g, ev.size)
                 [] ev.kind = "RedrawRequested" -> draw(st, g)
                 [] OTHER -> <<>>,
     exit |-> ev.kind = "CloseRequested"]

\* window_event that asks for a redraw after every resize, ready or not.
window_event_fx_redraw_on_resize(st, p, g, ev) ==
    [state |-> st, proxy |-> p, gfx |-> g,
     calls |-> CASE ev.kind = "Resized" ->
                        resized(st, g, ev.size)
                            \o <<Call("request_redraw", g, NoSize)>>
                 [] ev.kind = "RedrawRequested" -> draw(st, g)
                 [] OTHER -> <<>>,
     exit |-> ev.kind = "CloseRequested"]

\* window_event whose catch-all arm also ends the loop.
window_event_fx_exit_on_other(st, p, g, ev) ==
    [state |-> st, proxy |-> p, gfx |-> g,
     calls |-> CASE ev.kind = "Resized" -> resized(st, g, ev.size)
                 [] ev.kind = "RedrawRequested" -> draw(st, g)
                 [] OTHER -> <<>>,
     exit |-> ev.kind \in {"CloseRequested", "Other"}]

\* App::window_event: what one call does to the App, the Graphics and the loop.
window_event_fx(st, p, g, ev) ==
    [state |-> st, proxy |-> p, gfx |-> g,
     calls |-> CASE ev.kind = "Resized" -> resized(st, g, ev.size)
                 [] ev.kind = "RedrawRequested" -> draw(st, g)
                 [] OTHER -> <<>>,
     exit |-> ev.kind = "CloseRequested"]

\* user_event that keeps the Graphics it replaces alive.
user_event_fx_leak(st, p, g, graphics) ==
    [state |-> "Ready", proxy |-> FALSE, gfx |-> graphics,
     calls |-> <<Call("request_redraw", graphics, NoSize)>>,
     dropped |-> {},
     abort |-> FALSE]

\* user_event that ignores a delivery once Ready and drops the new Graphics.
user_event_fx_keep_first(st, p, g, graphics) ==
    IF st = "Ready"
    THEN [state |-> st, proxy |-> p, gfx |-> g, calls |-> <<>>,
          dropped |-> {graphics}, abort |-> FALSE]
    ELSE [state |-> "Ready", proxy |-> FALSE, gfx |-> graphics,
          calls |-> <<Call("request_redraw", graphics, NoSize)>>,
          dropped |-> {}, abort |-> FALSE]

\* user_event that treats a delivery while Ready as fatal.
user_event_fx_fatal(st, p, g, graphics) ==
    [state |-> "Ready", proxy |-> FALSE, gfx |-> graphics,
     calls |-> <<Call("request_redraw", graphics, NoSize)>>,
     dropped |-> IF st = "Ready" THEN {g} ELSE {},
     abort |-> st = "Ready"]

\* user_event without the request_redraw call.
user_event_fx_no_redraw(st, p, g, graphics) ==
    [state |-> "Ready", proxy |-> FALSE, gfx |-> graphics,
     calls |-> <<>>,
     dropped |-> IF st = "Ready" THEN {g} ELSE {},
     abort |-> FALSE]

\* App::user_event: request_redraw on the delivered Graphics, then the
\* assignment self.state = State::Ready(graphics), which drops the old value.
user_event_fx(st, p, g, graphics) ==
    [state |-> "Ready", proxy |-> FALSE, gfx |-> graphics,
     calls |-> <<Call("request_redraw", graphics, NoSize)>>,
     dropped |-> IF st = "Ready" THEN {g} ELSE {},
     abort |-> FALSE]

\* create_graphics(window, proxy) as task i: the Graphics values it has sent
\* after k sends.
create_graphics(i, k) == [j \in 1..k |-> Handle(i, j)]

\* ------------------------------------------------------- EngineContext
\* Arc::clone of the handle EngineContext::new returned.
ArcClone ==
    /\ phase = "created"
    /\ refs >= 1
    /\ refs < MaxRefs
    /\ refs' = refs + 1
    /\ UNCHANGED <<appVars, live, queue, exiting, phase, platform, event_loop,
                   last_run, run_calls, redraw_pending, tasks, windows, calls,
                   handled, activations, delivered, transitions>>

\* Drop of one handle; the last one drops the EngineContext.
ArcDrop ==
    /\ phase = "created"
    /\ refs >= 1
    /\ refs' = refs - 1
    /\ phase' = IF refs = 1 THEN "dropped" ELSE phase
    /\ UNCHANGED <<appVars, live, queue, exiting, platform, event_loop,
                   last_run, run_calls, redraw_pending, tasks, windows, calls,
                   handled, activations, delivered, transitions>>

\* run that unwraps the context whether or not other handles exist.
run_outcome_ignore_alias(r, el) ==
    IF el THEN "started" ELSE "silent"

\* run that returns quietly when Arc::try_unwrap fails.
run_outcome_quiet_alias(r, el) ==
    IF r > 1 THEN "silent" ELSE IF el THEN "started" ELSE "silent"

\* How a call of run ends with r handles alive and the event_loop slot el:
\* Arc::try_unwrap fails and panics, or event_loop.take() yields the loop and
\* run_app starts, or the slot is None and run returns without a word.
run_outcome(r, el) ==
    IF r > 1 THEN "panic" ELSE IF el THEN "started" ELSE "silent"

\* EngineContext::run: Arc::try_unwrap or panic, then event_loop.take() and
\* run_app. The handle passed in is consumed either way.
run ==
    /\ phase = "created"
    /\ refs >= 1
    /\ run_calls' = 1 - run_calls
    /\ refs' = refs - 1
    /\ last_run' = run_outcome(refs, event_loop)
    /\ IF last_run' = "started"
       THEN /\ event_loop' = FALSE
            /\ phase' = "running"
       ELSE /\ phase' = IF refs = 1 THEN "dropped" ELSE phase
            /\ UNCHANGED event_loop
    /\ UNCHANGED <<appVars, live, queue, exiting, platform, redraw_pending,
                   tasks, windows, calls, handled, activations, delivered,
                   transitions>>

\* ------------------------------------------- ApplicationHandler for App
\* resumed that spawns the construction task on every build, never blocking
\* on it.
resumed_first_spawn(ok, k, fin) ==
    /\ proxy' = proxy_take(proxy)
    /\ IF ~ok
       THEN /\ phase' = "panicked"
            /\ UNCHANGED <<windows, tasks, queue, live>>
       ELSE /\ windows' = windows + 1
            /\ tasks' = Append(tasks, [sent |-> 0, done |-> FALSE])
            /\ UNCHANGED <<queue, live, phase>>

\* resumed, first branch taken: the slot held Some(proxy). create_window
\* returns Ok (ok) or Err, and .expect panics on Err. On the blocking build
\* block_on runs the task inside the call: it sends k values and resolves
\* (fin) or never resolves. On the cooperative build spawn_local queues it.
resumed_first(ok, k, fin) ==
    /\ proxy' = proxy_take(proxy)
    /\ IF ~ok
       THEN /\ phase' = "panicked"
            /\ UNCHANGED <<windows, tasks, queue, live>>
       ELSE /\ windows' = windows + 1
            /\ IF platform = "blocking"
               THEN /\ tasks' = Append(tasks, [sent |-> k, done |-> fin])
                    /\ queue' = queue \o create_graphics(Len(tasks) + 1, k)
                    /\ live' = live \cup Range(create_graphics(Len(tasks) + 1, k))
                    /\ phase' = IF fin THEN phase ELSE "blocked"
               ELSE /\ tasks' = Append(tasks, [sent |-> 0, done |-> FALSE])
                    /\ UNCHANGED <<queue, live, phase>>

\* resumed that, having blocked on the construction, stores the Graphics in
\* the state itself instead of leaving it to user_event.
resumed_sync_ready ==
    /\ phase = "running"
    /\ activations < MaxActivations
    /\ activations' = activations + 1
    /\ IF resumed_guard(state, proxy)
       THEN /\ proxy' = proxy_take(proxy)
            /\ windows' = windows + 1
            /\ tasks' = Append(tasks, [sent |-> 1, done |-> TRUE])
            /\ live' = live \cup {Handle(Len(tasks) + 1, 1)}
            /\ state' = "Ready"
            /\ gfx' = Handle(Len(tasks) + 1, 1)
            /\ transitions' = transitions + 1
       ELSE UNCHANGED <<proxy, windows, tasks, live, state, gfx, transitions>>
    /\ UNCHANGED <<phase, queue, exiting, ctxVars, redraw_pending, calls,
                   handled, delivered>>

resumed ==
    /\ phase = "running"
    /\ activations < MaxActivations
    /\ activations' = activations + 1
    /\ IF resumed_guard(state, proxy)
       THEN \E ok \in BOOLEAN, k \in 0..MaxSends, fin \in BOOLEAN :
                resumed_first(ok, k, fin)
       ELSE UNCHANGED <<proxy, phase, windows, tasks, queue, live>>
    /\ UNCHANGED <<state, gfx, exiting, ctxVars, redraw_pending, calls,
                   handled, delivered, transitions>>

\* The spawned construction task (cooperative build) sends a Graphics.
create_graphics_send(i) ==
    /\ phase = "running"
    /\ platform = "cooperative"
    /\ ~tasks[i].done
    /\ tasks[i].sent < MaxSends
    /\ tasks' = [tasks EXCEPT ![i].sent = @ + 1]
    /\ queue' = Append(queue, Handle(i, tasks[i].sent + 1))
    /\ live' = live \cup {Handle(i, tasks[i].sent + 1)}
    /\ UNCHANGED <<appVars, exiting, phase, ctxVars, redraw_pending, windows,
                   calls, handled, activations, delivered, transitions>>

\* The spawned construction task resolves.
create_graphics_done(i) ==
    /\ phase = "running"
    /\ platform = "cooperative"
    /\ ~tasks[i].done
    /\ tasks' = [tasks EXCEPT ![i].done = TRUE]
    /\ UNCHANGED <<appVars, live, queue, exiting, phase, ctxVars,
                   redraw_pending, windows, calls, handled, activations,
                   delivered, transitions>>

\* Graphics::request_redraw is among the calls cs.
Requests(cs) == \E i \in 1..Len(cs) : cs[i].op = "request_redraw"

\* The event loop dispatches the oldest user event to App::user_event.
user_event ==
    /\ phase = "running"
    /\ queue # <<>>
    /\ LET fx == user_event_fx(state, proxy, gfx, Head(queue)) IN
        /\ state' = fx.state
        /\ proxy' = fx.proxy
        /\ gfx' = fx.gfx
        /\ calls' = calls \o fx.calls
        /\ live' = live \ fx.dropped
        /\ transitions' = IF state = "Init" /\ fx.state = "Ready"
                           THEN transitions + 1 ELSE transitions
        /\ phase' = IF fx.abort THEN "panicked" ELSE phase
        /\ redraw_pending' = (redraw_pending \/ Requests(fx.calls))
    /\ queue' = Tail(queue)
    /\ delivered' = delivered + 1
    /\ UNCHANGED <<exiting, ctxVars, tasks, windows, handled, activations>>

\* The event loop dispatches a window event to App::window_event. The handler
\* takes any event in any state, a window existing or not; handlers may still
\* run between event_loop.exit() and the loop's end.
dispatch_window_event(ev) ==
    /\ phase = "running"
    /\ LET fx == window_event_fx(state, proxy, gfx, ev) IN
        /\ state' = fx.state
        /\ proxy' = fx.proxy
        /\ gfx' = fx.gfx
        /\ calls' = calls \o fx.calls
        /\ exiting' = (exiting \/ fx.exit)
        /\ transitions' = IF state = "Init" /\ fx.state = "Ready"
                           THEN transitions + 1 ELSE transitions
        /\ redraw_pending' =
                \/ redraw_pending /\ ev.kind # "RedrawRequested"
                \/ Requests(fx.calls)
    /\ handled' = Append(handled, [kind |-> ev.kind, size |-> ev.size, st |-> state])
    /\ UNCHANGED <<live, queue, phase, ctxVars, tasks, windows, activations,
                   delivered>>

\* A window event the platform produces on its own.
window_event(ev) ==
    /\ Len(handled) < MaxWinEvents
    /\ dispatch_window_event(ev)

\* The RedrawRequested event the platform owes after request_redraw.
redraw_requested ==
    /\ redraw_pending
    /\ dispatch_window_event([kind |-> "RedrawRequested", size |-> NoSize])

\* run_app returns: the loop ends once exit was requested.
run_app_exit ==
    /\ phase = "running"
    /\ exiting
    /\ phase' = "exited"
    /\ UNCHANGED <<appVars, live, queue, exiting, ctxVars, redraw_pending,
                   tasks, windows, calls, handled, activations, delivered,
                   transitions>>

Next ==
    \/ ArcClone
    \/ ArcDrop
    \/ run
    \/ resumed
    \/ \E i \in 1..Len(tasks) : create_graphics_send(i)
    \/ \E i \in 1..Len(tasks) : create_graphics_done(i)
    \/ user_event
    \/ \E ev \in WinEvents : window_event(ev)
    \/ redraw_requested
    \/ run_app_exit

Spec == Init /\ [][Next]_vars

\* The running loop keeps dispatching: a queued user event is handled, and a
\* requested redraw is delivered, unless the loop ends first.
SpecFair ==
    /\ Spec
    /\ WF_vars(user_event)
    /\ WF_vars(redraw_requested)

TypeOK ==
    /\ state \in {"Init", "Ready"}
    /\ proxy \in BOOLEAN
    /\ exiting \in BOOLEAN
    /\ phase \in {"created", "running", "blocked", "panicked", "exited", "dropped"}
    /\ refs \in 0..MaxRefs
    /\ windows \in 0..MaxActivations
    /\ Len(handled) <= MaxWinEvents + MaxSends * MaxActivations
    /\ run_calls \in {0, 1}
    /\ redraw_pending \in BOOLEAN

\* ------------------------------------------------------------ properties
Last(s) == s[Len(s)]

\* A resumed, user_event or window_event call happens in this step.
ResumedStep == activations' = activations + 1
UserEventStep == delivered' = delivered + 1
WindowEventStep == Len(handled') = Len(handled) + 1

\* Graphics values the application holds: alive and no longer in the queue.
Held == live \ Range(queue)

IsRedrawRequest(c) == c.op = "request_redraw"
IsForward(c) == c.op \in {"draw", "resize"}
IsDroppable(e) == e.kind \in {"Resized", "RedrawRequested"}
IsReadyEvent(e) == e.st = "Ready" /\ IsDroppable(e)

\* Every construction task has sent at most one value so far.
OneValuePerTask == \A i \in 1..Len(tasks) : tasks[i].sent <= 1

\* C1: however many resumed calls arrive before the first Graphics is
\* delivered, at most one window and one construction task exist, and once a
\* call has been made (and create_window did not panic) there is exactly one
\* of each and the proxy slot is empty.
C1_IdempotentActivation ==
    /\ windows <= 1
    /\ Len(tasks) <= 1
    /\ (activations >= 1 /\ delivered = 0 /\ phase # "panicked")
            => (windows = 1 /\ Len(tasks) = 1 /\ state = "Init" /\ ~proxy)

C1_Witness ==
    /\ activations >= 2
    /\ delivered = 0
    /\ Len(handled) >= 1
    /\ windows = 1
    /\ Len(tasks) = 1
    /\ ~tasks[1].done

\* C2: the state goes from Init to Ready at most once, and the application
\* never holds more than one live Graphics.
C2_SingleTransition ==
    /\ transitions <= 1
    /\ Cardinality(Held) <= 1

C2_Witness ==
    /\ delivered >= 2
    /\ activations >= 2
    /\ transitions = 1
    /\ state = "Ready"
    /\ Held = {gfx}

\* C3: Ready is never left, the variant changes only in a user_event call,
\* and resumed and window_event leave the variant alone.
C3_OneDirectional ==
    [][/\ (state = "Ready" => state' = "Ready")
       /\ (state' # state => UserEventStep)
       /\ ((ResumedStep \/ WindowEventStep) => state' = state)]_vars

C3_Witness ==
    /\ phase = "exited"
    /\ state = "Init"
    /\ activations >= 1
    /\ Len(handled) >= 2
    /\ Len(tasks) = 1
    /\ tasks[1].sent = 0

\* C4: a user_event call leaves the state Ready holding exactly the Graphics
\* it was given, whatever the state was, with a redraw requested on it.
C4_ReadyHoldsDelivered ==
    [][UserEventStep =>
           /\ state' = "Ready"
           /\ gfx' = Head(queue)
           /\ Call("request_redraw", Head(queue), NoSize) \in Range(calls')]_vars

C4_Witness ==
    /\ activations = 1
    /\ delivered = 1
    /\ state = "Ready"
    /\ gfx = Handle(1, 1)
    /\ calls = <<Call("request_redraw", Handle(1, 1), NoSize)>>

\* C5: a resize or redraw-requested event handled in Init makes no call on a
\* Graphics, does not abort and leaves the state as it was; and the draw and
\* resize calls ever made are as many as the resize and redraw-requested
\* events handled while Ready, so nothing dropped is replayed later.
C5_DroppedWhileAwaiting ==
    /\ [][(WindowEventStep /\ state = "Init" /\ IsDroppable(Last(handled')))
              => (/\ calls' = calls
                  /\ phase' = phase
                  /\ UNCHANGED <<state, proxy, gfx, queue, live>>)]_vars
    /\ [](Len(SelectSeq(calls, IsForward)) = Len(SelectSeq(handled, IsReadyEvent)))

C5_Witness ==
    /\ Len(handled) = 3
    /\ handled[1].kind = "Resized" /\ handled[1].st = "Init"
    /\ handled[2].kind = "RedrawRequested" /\ handled[2].st = "Init"
    /\ handled[3].kind = "RedrawRequested" /\ handled[3].st = "Ready"
    /\ Len(SelectSeq(calls, IsForward)) = 1

\* C6: a close-requested event requests loop exit whatever the state is, and
\* handling it creates no window.
C6_CloseRequestsExit ==
    [][(WindowEventStep /\ Last(handled').kind = "CloseRequested")
           => (exiting' /\ windows' = windows /\ phase' = phase)]_vars

C6_Witness ==
    /\ phase = "exited"
    /\ activations = 0
    /\ windows = 0
    /\ handled = <<[kind |-> "CloseRequested", size |-> NoSize, st |-> "Init"]>>

\* C7: the step that takes the state from Init to Ready is a user_event call
\* that makes exactly one call, request_redraw on the Graphics now held, with
\* no window event handled in it; and only user_event calls request redraws.
C7_ReadyTriggersRedraw ==
    [][/\ (state = "Init" /\ state' = "Ready")
            => (/\ UserEventStep
                /\ calls' = Append(calls, Call("request_redraw", gfx', NoSize))
                /\ handled' = handled)
       /\ (Len(SelectSeq(calls', IsRedrawRequest))
               # Len(SelectSeq(calls, IsRedrawRequest))) => UserEventStep]_vars

C7_Witness ==
    /\ state = "Ready"
    /\ delivered = 1
    /\ calls = <<Call("request_redraw", gfx, NoSize)>>
    /\ \A i \in 1..Len(handled) : handled[i].kind # "RedrawRequested"
    /\ Len(handled) >= 1

\* C8: while every construction task has sent at most one value, at most one
\* user_event call was made, redraws were requested only in such calls, and
\* no call on a Graphics was made before the first of them.
C8_ReadyBeforeRedraw ==
    OneValuePerTask =>
        /\ delivered <= 1
        /\ Len(SelectSeq(calls, IsRedrawRequest)) <= delivered
        /\ (calls # <<>> => (delivered >= 1 /\ IsRedrawRequest(calls[1])))

C8_Witness ==
    /\ Len(tasks) = 1
    /\ tasks[1].sent = 1
    /\ tasks[1].done
    /\ delivered = 1
    /\ Len(calls) >= 3
    /\ \E i \in 1..Len(calls) : calls[i].op = "draw"

\* C9: a resumed call that finds the slot empty, or the state Ready, changes
\* nothing: no window, no task, no call on a Graphics, no abort.
C9_ActivateNoOp ==
    [][(ResumedStep /\ (state = "Ready" \/ ~proxy))
           => UNCHANGED <<state, proxy, gfx, windows, tasks, calls, queue,
                          live, phase, exiting>>]_vars

C9_Witness ==
    /\ activations >= 2
    /\ windows = 1
    /\ Len(tasks) = 1
    /\ state = "Ready"
    /\ phase = "running"

\* C10 as stated: a user_event call handled while Ready does not abort and
\* leaves the application state as it was.
C10_SecondReadyIsNoOp ==
    [][(UserEventStep /\ state = "Ready")
           => (phase' = phase /\ UNCHANGED <<state, proxy, gfx>>)]_vars

\* C10 amended: a user_event call handled while Ready does not abort and
\* keeps the state Ready, but the Graphics held is replaced by the delivered
\* one, the replaced one is dropped, and a redraw is requested on the new one.
C10_SecondReadyReplaces ==
    [][(UserEventStep /\ state = "Ready")
           => (/\ phase' = phase
               /\ state' = "Ready"
               /\ gfx' = Head(queue)
               /\ gfx' # gfx
               /\ live' = live \ {gfx}
               /\ calls' = Append(calls, Call("request_redraw", Head(queue), NoSize)))]_vars

C10_Witness ==
    /\ delivered = 2
    /\ state = "Ready"
    /\ gfx = Handle(1, 2)
    /\ Handle(1, 1) \notin live
    /\ phase = "running"

\* A call of EngineContext::run happens in this step.
RunStep == run_calls' # run_calls

\* C11: a call of run made while another handle exists panics; it leaves the
\* event loop in its slot, starts no runner and no handler runs. As long as
\* no run has started the loop, the loop is in its slot and the App has
\* handled nothing.
C11_RunNeedsUniqueOwnership ==
    /\ [][(RunStep /\ refs > 1)
              => (/\ last_run' = "panic"
                  /\ UNCHANGED <<event_loop, phase, state, proxy, gfx, windows,
                                 tasks, queue, calls, handled, activations,
                                 delivered>>)]_vars
    /\ [](phase = "created"
              => (/\ event_loop
                  /\ activations = 0 /\ delivered = 0 /\ handled = <<>>))

C11_Witness ==
    /\ last_run = "panic"
    /\ phase = "created"
    /\ refs = 1
    /\ event_loop

\* C12: a call of run either starts the loop, taking it out of its slot from
\* a context with one handle, or panics; none returns quietly. The slot is
\* emptied only by the call that starts the loop and is never refilled, so
\* the loop is started at most once.
C12_LoopStartedOnce ==
    /\ [][/\ RunStep =>
               \/ /\ last_run' = "started"
                  /\ refs = 1 /\ event_loop /\ ~event_loop'
                  /\ phase = "created" /\ phase' = "running"
               \/ /\ last_run' = "panic"
                  /\ phase' = phase /\ event_loop' = event_loop
          /\ (event_loop' # event_loop => (RunStep /\ last_run' = "started"))
          /\ ((phase # "running" /\ phase' = "running")
                  => (RunStep /\ event_loop))
          /\ (~event_loop => ~event_loop')]_vars
    /\ [](last_run # "silent")

C12_Witness ==
    /\ last_run = "started"
    /\ run_calls = 0
    /\ phase = "running"
    /\ ~event_loop
    /\ refs = 0
    /\ activations >= 1

\* The first construction task has sent exactly one value and has resolved.
Constructed ==
    /\ Len(tasks) >= 1
    /\ tasks[1].sent = 1
    /\ tasks[1].done

\* A close-requested event has been handled, or the run has ended.
Closed == exiting \/ phase # "running"

\* The Graphics in the state has been drawn.
Drawn == \E i \in 1..Len(calls) : calls[i] = Call("draw", gfx, NoSize)

\* C13: under fair dispatch, once the application was activated and its
\* construction task has sent its one value and resolved, the state becomes
\* Ready holding that value and a draw call is made on it, unless a
\* close-requested event is handled first; and Ready is kept from then on.
C13_EventualReadiness ==
    /\ (Constructed /\ activations >= 1)
            ~> ((state = "Ready" /\ gfx = Handle(1, 1)) \/ Closed)
    /\ (Constructed /\ state = "Ready") ~> (Drawn \/ Closed)
    /\ [][state = "Ready" => state' = "Ready"]_vars

C13_Witness ==
    /\ Constructed
    /\ activations >= 1
    /\ ~exiting
    /\ phase = "running"
    /\ state = "Ready"
    /\ gfx = Handle(1, 1)
    /\ Drawn
    /\ ~redraw_pending

\* The call a resize or redraw-requested event is forwarded as.
Forwarded(e) ==
    IF e.kind = "Resized"
    THEN [op |-> "resize", size |-> e.size]
    ELSE [op |-> "draw", size |-> NoSize]

Strip(c) == [op |-> c.op, size |-> c.size]

\* C14: a resize or redraw-requested event handled while Ready makes exactly
\* one call, resize with the event's size or draw, on the Graphics held; and
\* the resize and draw calls made are, in order, those of the resize and
\* redraw-requested events handled while Ready.
C14_ForwardingWhileReady ==
    /\ [][(WindowEventStep /\ state = "Ready" /\ IsDroppable(Last(handled')))
              => calls' = Append(calls,
                                 Call(Forwarded(Last(handled')).op, gfx,
                                      Last(handled').size))]_vars
    /\ [](LET fwd == SelectSeq(calls, IsForward)
              rdy == SelectSeq(handled, IsReadyEvent)
          IN  /\ Len(fwd) = Len(rdy)
              /\ \A i \in 1..Len(fwd) : Strip(fwd[i]) = Forwarded(rdy[i]))

C14_Witness ==
    /\ state = "Ready"
    /\ delivered = 1
    /\ calls = <<Call("request_redraw", gfx, NoSize),
                 Call("resize", gfx, 2),
                 Call("draw", gfx, NoSize)>>

\* C15: on the blocking build the construction runs inside resumed: no task
\* is in flight while the loop runs and tasks change in resumed only. When
\* the first resumed returns, the values the task sent are queued, the state
\* is still Init with the slot empty; the state changes in user_event only,
\* and a window event handled with the value still queued is dropped.
C15_BlockingConstruction ==
    /\ []((platform = "blocking" /\ phase \in {"running", "exited"})
              => \A i \in 1..Len(tasks) : tasks[i].done)
    /\ [][/\ (platform = "blocking" /\ tasks' # tasks) => ResumedStep
          /\ (platform = "blocking" /\ ResumedStep /\ Len(tasks') = Len(tasks) + 1)
                => (/\ queue' = queue \o create_graphics(Len(tasks'), Last(tasks').sent)
                    /\ state = "Init" /\ state' = "Init" /\ ~proxy'
                    /\ gfx' = NoGfx)
          /\ (platform = "blocking" /\ state' # state) => UserEventStep
          /\ (platform = "blocking" /\ WindowEventStep /\ state = "Init"
                    /\ queue # <<>>)
                => (/\ calls' = calls
                    /\ UNCHANGED <<state, proxy, gfx, queue>>)]_vars

C15_Witness ==
    /\ platform = "blocking"
    /\ phase = "running"
    /\ activations = 1
    /\ tasks = <<[sent |-> 1, done |-> TRUE]>>
    /\ queue = <<Handle(1, 1)>>
    /\ state = "Init"
    /\ ~proxy
    /\ Len(handled) = 2
    /\ calls = <<>>

\* What a cooperative resumed followed by k sends of the new task, and by its
\* resolving or not, makes of the state: the blocking resumed must do the same.
CooperativeRun(k) ==
    /\ ~proxy'
    /\ windows' = windows + 1
    /\ Len(tasks') = Len(tasks) + 1
    /\ Last(tasks').sent = k
    /\ queue' = queue \o [j \in 1..k |-> Handle(Len(tasks'), j)]
    /\ live' = live \cup {Handle(Len(tasks'), j) : j \in 1..k}
    /\ UNCHANGED <<state, gfx, calls, handled, exiting, redraw_pending,
                   delivered, transitions>>

\* C16: the handlers do not depend on the build. A blocking resumed is a
\* cooperative resumed followed by the task's sends, which change only the
\* queue and the task; and on either build the Graphics enters the state only
\* in a user_event call, taken from the head of the queue the task filled.
C16_SameOnBothBuilds ==
    [][/\ (platform = "blocking" /\ ResumedStep /\ windows' # windows)
            => \E k \in 0..MaxSends : CooperativeRun(k)
       /\ (platform = "blocking" /\ ResumedStep /\ windows' = windows)
            => UNCHANGED <<state, gfx, tasks, queue, live, calls, handled,
                           exiting, redraw_pending>>
       /\ (gfx' # gfx \/ state' # state)
            => (/\ UserEventStep
                /\ queue # <<>>
                /\ gfx' = Head(queue)
                /\ \E i \in 1..Len(tasks) :
                       \E j \in 1..tasks[i].sent : gfx' = Handle(i, j))]_vars

C16_Witness ==
    /\ platform = "blocking"
    /\ tasks = <<[sent |-> 1, done |-> TRUE]>>
    /\ state = "Ready"
    /\ gfx = Handle(1, 1)
    /\ delivered = 1
    /\ Len(calls) >= 2
    /\ Len(handled) >= 2

\* C17: a window_event call leaves the variant, the Graphics held and the
\* slot as they were; an event that is neither resize, redraw-requested nor
\* close-requested makes no call on a Graphics and requests no exit.
C17_WindowEventKeepsState ==
    [][WindowEventStep
           => (/\ UNCHANGED <<state, proxy, gfx>>
               /\ Last(handled').kind = "Other"
                    => (calls' = calls /\ exiting' = exiting))]_vars

C17_Witness ==
    /\ state = "Ready"
    /\ ~exiting
    /\ \E i \in 1..Len(handled) :
           handled[i].kind = "Other" /\ handled[i].st = "Ready"
    /\ \E i \in 1..Len(handled) :
           handled[i].kind = "Other" /\ handled[i].st = "Init"

\* C18: unless create_window has panicked, at most one window exists; in Init
\* the slot is occupied exactly when no window exists; the tasks started are
\* as many as the windows; and Ready implies exactly one window.
C18_WindowSlotConsistency ==
    phase # "panicked" =>
        /\ windows \in {0, 1}
        /\ (state = "Init" => (proxy <=> windows = 0))
        /\ Len(tasks) = windows
        /\ (state = "Ready" => windows = 1)

C18_Witness ==
    /\ state = "Ready"
    /\ windows = 1
    /\ Len(tasks) = 1
    /\ activations >= 2
    /\ delivered >= 1

====
